---------------------------- MODULE Spec2Model ----------------------------
(***************************************************************************)
(* The kernel's virtual-memory mapping facade (memory/mmu.rs of tutorials  *)
(* 14 and 15): guarded raw mapping, MMIO remapping with deduplication,     *)
(* kernel-image mapping, MMU enabling and address translation.             *)
(*                                                                         *)
(* Addresses are byte addresses (naturals).  A page slice descriptor is a  *)
(* record [start, num] with a page-aligned start address and a page count. *)
(* The translation table, the mapping record and the MMU driver live in    *)
(* sibling modules of the repository (translation_table, mapping_record,   *)
(* arch_mmu, bsp); their operators below follow sections 4.2 - 4.5 of the  *)
(* specification.                                                          *)
(***************************************************************************)
EXTENDS Integers, Sequences, FiniteSets, TLC

(***************************************************************************)
(* Bounds of the model.                                                    *)
(***************************************************************************)
\* log2 of the translation granule (the page size is 2^GranuleShift bytes).
GranuleShift == 1
\* Virtual pages below the reserved MMIO region.
NumNormalPages == 2
\* Virtual pages of the reserved MMIO region (the top of the address space).
MmioPages == 3
\* Pages of RAM, at the bottom of the physical address space; the devices'
\* registers lie above them.
NumRamPages == 2
\* Capacity of the mapping record's bounded backing store.
RecordCap == 3
\* Largest start address (from the first device register) and byte size of
\* an MMIO descriptor a driver passes.
MaxMmioStart == 2
MaxMmioSize == 2
\* Largest page count of a slice passed to kernel_map_pages_at.
MaxMapPages == 2

(***************************************************************************)
(* TranslationGranule<GRANULE_SIZE>: SIZE, MASK, SHIFT.                    *)
(***************************************************************************)
RECURSIVE Pow2(_)
Pow2(n) == IF n = 0 THEN 1 ELSE 2 * Pow2(n - 1)

\* TranslationGranule::SIZE: a power of two (size_checked asserts it), here
\* 2^SHIFT.
GranuleSize == Pow2(GranuleShift)

GranuleMask == GranuleSize - 1

\* x & MASK for MASK = 2^k - 1: the low k bits of x.
RECURSIVE BitAnd(_, _)
BitAnd(x, m) ==
    IF x = 0 \/ m = 0 THEN 0
    ELSE (IF (x % 2 = 1) /\ (m % 2 = 1) THEN 1 ELSE 0) + 2 * BitAnd(x \div 2, m \div 2)

(***************************************************************************)
(* Address spaces.                                                         *)
(***************************************************************************)
NumVirtPages == NumNormalPages + MmioPages
MmioStartPage == NumNormalPages
MmioEndPage == NumVirtPages          \* exclusive

VirtAddrs == 0 .. (NumVirtPages * GranuleSize - 1)
DeviceBase == NumRamPages * GranuleSize

Names == {"drvA", "drvB"}

\* AttributeFields: memory type, access permissions, execute-never.
Attr(m, a, x) == [mem_attributes |-> m, acc_perms |-> a, execute_never |-> x]
DeviceAttr == Attr("Device", "ReadWrite", TRUE)
CodeAttr == Attr("CacheableDRAM", "ReadOnly", FALSE)
DataAttr == Attr("CacheableDRAM", "ReadWrite", TRUE)
ManualAttrs == {DataAttr}

\* PageSliceDescriptor: page-aligned start address and page count.
Slice(start, num) == [start |-> start, num |-> num]
StartPage(s) == s.start \div GranuleSize
SlicePages(s) == {StartPage(s) + i : i \in 0 .. (s.num - 1)}

\* MMIODescriptor: physical start address and byte size (size > 0).
MMIODesc(start, size) == [start |-> start, size |-> size]
MMIODescs ==
    {MMIODesc(DeviceBase + s, z) : s \in 0 .. MaxMmioStart, z \in 1 .. MaxMmioSize}

align_down(a) == (a \div GranuleSize) * GranuleSize
align_up(a) == ((a + GranuleSize - 1) \div GranuleSize) * GranuleSize

\* From<MMIODescriptor> for PageSliceDescriptor<Physical>: the byte range
\* rounded outward to whole pages.
MMIODescriptor_into(d) ==
    Slice(align_down(d.start),
          (align_up(d.start + d.size) - align_down(d.start)) \div GranuleSize)

(***************************************************************************)
(* Results.                                                                *)
(***************************************************************************)
NoVal == -1
Ok(v) == [ok |-> TRUE, val |-> v, err |-> ""]
Err(e) == [ok |-> FALSE, val |-> NoVal, err |-> e]

ErrMmioPolicy == "Attempt to manually map into MMIO region"
ErrUnequal == "Tried to map page slices with unequal sizes"
ErrOccupied == "Virtual page is already mapped"
ErrCapacity == "Tried to map outside of the translation table"
ErrMmioExhausted == "Not enough MMIO space left"
ErrRecordFull == "Storage for mapping info exhausted"

(***************************************************************************)
(* Translation table (architecture contract, section 4.4).                 *)
(*                                                                         *)
(* The kernel state handed through the operators below is a record         *)
(*   [table, cursor, initialized, record]                                  *)
(* table: virtual page number -> page descriptor; cursor: the next unused  *)
(* page of the MMIO region; record: the mapping record's entries.          *)
(***************************************************************************)
InvalidDesc == [valid |-> FALSE, phys |-> 0, attr |-> DataAttr]
PageDesc(phys, attr) == [valid |-> TRUE, phys |-> phys, attr |-> attr]

EmptyTable == [p \in 0 .. (NumVirtPages - 1) |-> InvalidDesc]

\* init(): prepares the static structures once; a second call changes nothing.
init(k) ==
    IF k.initialized THEN k
    ELSE [k EXCEPT !.table = EmptyTable, !.cursor = MmioStartPage,
                   !.initialized = TRUE]

\* phys_base_address(): the physical address of the root table.
KernelTablesPage == 1
phys_base_address == KernelTablesPage * GranuleSize

\* map_pages_at(): installs virtual page i -> physical page i for the whole
\* slice, or fails and installs nothing.
map_pages_at(tbl, virt_pages, phys_pages, attr) ==
    IF virt_pages.num # phys_pages.num
    THEN [res |-> Err(ErrUnequal), table |-> tbl]
    ELSE IF \E p \in SlicePages(virt_pages) : p >= NumVirtPages
    THEN [res |-> Err(ErrCapacity), table |-> tbl]
    ELSE IF \E p \in SlicePages(virt_pages) : tbl[p].valid
    THEN [res |-> Err(ErrOccupied), table |-> tbl]
    ELSE [res |-> Ok(0),
          table |-> [p \in DOMAIN tbl |->
                        IF p \in SlicePages(virt_pages)
                        THEN PageDesc(phys_pages.start
                                        + (p - StartPage(virt_pages)) * GranuleSize,
                                      attr)
                        ELSE tbl[p]]]

\* is_virt_page_slice_mmio(): does the slice intersect the reserved MMIO
\* region?
is_virt_page_slice_mmio(virt_pages) ==
    \E p \in SlicePages(virt_pages) : p >= MmioStartPage /\ p < MmioEndPage

\* next_mmio_virt_page_slice(): bump allocation from the MMIO region.
next_mmio_virt_page_slice(k, num_pages) ==
    IF num_pages = 0 \/ k.cursor + num_pages > MmioEndPage
    THEN [res |-> Err(ErrMmioExhausted), slice |-> Slice(0, 0), k |-> k]
    ELSE [res |-> Ok(0),
          slice |-> Slice(k.cursor * GranuleSize, num_pages),
          k |-> [k EXCEPT !.cursor = k.cursor + num_pages]]

(***************************************************************************)
(* Mapping record (section 4.3).                                           *)
(***************************************************************************)
Entry(name, virt, phys, attr) ==
    [name |-> name, virt |-> virt, phys |-> phys, attr |-> attr]

\* mapping_record::kernel_add(): append, or fail when the store is full.
kernel_add(rec, name, virt_pages, phys_pages, attr) ==
    IF Len(rec) >= RecordCap
    THEN [res |-> Err(ErrRecordFull), record |-> rec]
    ELSE [res |-> Ok(0),
          record |-> Append(rec, Entry(name, virt_pages, phys_pages, attr))]

\* Index of the first entry whose physical descriptor equals phys_pages, or 0.
find_duplicate(rec, phys_pages) ==
    IF \E i \in 1 .. Len(rec) : rec[i].phys = phys_pages
    THEN CHOOSE i \in 1 .. Len(rec) :
             /\ rec[i].phys = phys_pages
             /\ \A j \in 1 .. (i - 1) : rec[j].phys # phys_pages
    ELSE 0

\* mapping_record::kernel_find_and_insert_mmio_duplicate(): on an exact match
\* of the page-aligned physical slice, append an entry for the new name that
\* reuses the match's virtual slice and return its start address.  A full
\* store loses the new entry with a warning.
kernel_find_and_insert_mmio_duplicate(rec, mmio_descriptor, new_name) ==
    LET phys_pages == MMIODescriptor_into(mmio_descriptor)
        i == find_duplicate(rec, phys_pages)
    IN  IF i = 0
        THEN [found |-> FALSE, addr |-> NoVal, record |-> rec, warn |-> FALSE]
        ELSE LET a == kernel_add(rec, new_name, rec[i].virt, rec[i].phys,
                                 rec[i].attr)
             IN  [found |-> TRUE, addr |-> rec[i].virt.start,
                  record |-> a.record, warn |-> ~a.res.ok]

(***************************************************************************)
(* MMU driver (architecture contract, section 4.5).  The driver's state is *)
(* a record [enabled, ttbr]: the enable bit and the table-base register.   *)
(***************************************************************************)
is_enabled(m) == m.enabled

\* arch enable_mmu_and_caching(): AlreadyEnabled is checked before any register
\* write; hw_ok = FALSE is an architecture-level failure (Other).
arch_enable_mmu_and_caching(m, phys_tables_base_addr, hw_ok) ==
    IF is_enabled(m)
    THEN [res |-> Err("AlreadyEnabled"), mmu |-> m]
    ELSE IF ~hw_ok
    THEN [res |-> Err("Other"), mmu |-> m]
    ELSE [res |-> Ok(0),
          mmu |-> [enabled |-> TRUE, ttbr |-> phys_tables_base_addr]]

\* arch try_virt_to_phys(): a walk of the live table.
arch_try_virt_to_phys(m, tbl, virt) ==
    IF ~is_enabled(m) THEN Err("MMUDisabled")
    ELSE LET p == virt \div GranuleSize
         IN  IF p \notin DOMAIN tbl \/ ~tbl[p].valid
             THEN Err("Aborted")
             ELSE Ok(tbl[p].phys + BitAnd(virt, GranuleMask))

(***************************************************************************)
(* Kernel mapping API (memory/mmu.rs).                                     *)
(***************************************************************************)
\* Mutant: a full record is not left alone, its newest entry is overwritten.
kernel_add_mapping_record_overwrite(rec, name, virt_pages, phys_pages, attr) ==
    LET a == kernel_add(rec, name, virt_pages, phys_pages, attr)
    IN  IF a.res.ok \/ Len(rec) = 0
        THEN [record |-> a.record, warn |-> ~a.res.ok]
        ELSE [record |-> [rec EXCEPT ![Len(rec)] =
                             Entry(name, virt_pages, phys_pages, attr)],
              warn |-> TRUE]

\* kernel_add_mapping_record(): a failed append is only a warning.
kernel_add_mapping_record(rec, name, virt_pages, phys_pages, attr) ==
    LET a == kernel_add(rec, name, virt_pages, phys_pages, attr)
    IN  [record |-> a.record, warn |-> ~a.res.ok]

\* Mutant: the record entry is added although the table was not written.
kernel_map_pages_at_unchecked_no_install(k, name, virt_pages, phys_pages, attr) ==
    LET m == map_pages_at(k.table, virt_pages, phys_pages, attr)
    IN  IF ~m.res.ok
        THEN [res |-> m.res, k |-> k, warn |-> FALSE]
        ELSE LET r == kernel_add_mapping_record(k.record, name, virt_pages,
                                                phys_pages, attr)
             IN  [res |-> Ok(0), k |-> [k EXCEPT !.record = r.record],
                  warn |-> r.warn]

\* Mutant: a full mapping record is an error of the call (`?` on kernel_add).
kernel_map_pages_at_unchecked_strict(k, name, virt_pages, phys_pages, attr) ==
    LET m == map_pages_at(k.table, virt_pages, phys_pages, attr)
    IN  IF ~m.res.ok
        THEN [res |-> m.res, k |-> [k EXCEPT !.table = m.table], warn |-> FALSE]
        ELSE LET a == kernel_add(k.record, name, virt_pages, phys_pages, attr)
             IN  [res |-> a.res,
                  k |-> [k EXCEPT !.table = m.table, !.record = a.record],
                  warn |-> FALSE]

\* Mutant: the result of map_pages_at is dropped (no `?`): the entry is
\* recorded and the call succeeds whether or not the pages were installed.
kernel_map_pages_at_unchecked_result_dropped(k, name, virt_pages, phys_pages, attr) ==
    LET m == map_pages_at(k.table, virt_pages, phys_pages, attr)
        r == kernel_add_mapping_record(k.record, name, virt_pages, phys_pages,
                                       attr)
    IN  [res |-> Ok(0),
         k |-> [k EXCEPT !.table = m.table, !.record = r.record],
         warn |-> r.warn]

kernel_map_pages_at_unchecked(k, name, virt_pages, phys_pages, attr) ==
    LET m == map_pages_at(k.table, virt_pages, phys_pages, attr)
    IN  IF ~m.res.ok
        THEN [res |-> m.res, k |-> [k EXCEPT !.table = m.table], warn |-> FALSE]
        ELSE LET r == kernel_add_mapping_record(k.record, name, virt_pages,
                                                phys_pages, attr)
             IN  [res |-> Ok(0),
                  k |-> [k EXCEPT !.table = m.table, !.record = r.record],
                  warn |-> r.warn]

\* Mutant: the MMIO-region check is missing.
kernel_map_pages_at_unguarded(k, name, virt_pages, phys_pages, attr) ==
    kernel_map_pages_at_unchecked(k, name, virt_pages, phys_pages, attr)

\* Mutant: the error of the unchecked mapping is not handed on (no `?`).
kernel_map_pages_at_error_swallowed(k, name, virt_pages, phys_pages, attr) ==
    IF is_virt_page_slice_mmio(virt_pages)
    THEN [res |-> Err(ErrMmioPolicy), k |-> k, warn |-> FALSE]
    ELSE [kernel_map_pages_at_unchecked(k, name, virt_pages, phys_pages, attr)
            EXCEPT !.res = Ok(0)]

kernel_map_pages_at(k, name, virt_pages, phys_pages, attr) ==
    IF is_virt_page_slice_mmio(virt_pages)
    THEN [res |-> Err(ErrMmioPolicy), k |-> k, warn |-> FALSE]
    ELSE kernel_map_pages_at_unchecked(k, name, virt_pages, phys_pages, attr)

\* Mutant: a fresh mapping returns the physical address (as if the device
\* were identity-mapped) instead of the allocated virtual slice's.
kernel_map_mmio_identity(k, name, mmio_descriptor) ==
    LET phys_pages == MMIODescriptor_into(mmio_descriptor)
        offset_into_start_page == BitAnd(mmio_descriptor.start, GranuleMask)
        dup == kernel_find_and_insert_mmio_duplicate(k.record, mmio_descriptor,
                                                     name)
    IN  IF dup.found
        THEN [res |-> Ok(dup.addr + offset_into_start_page),
              k |-> [k EXCEPT !.record = dup.record], warn |-> dup.warn]
        ELSE LET a == next_mmio_virt_page_slice(k, phys_pages.num)
             IN  IF ~a.res.ok
                 THEN [res |-> a.res, k |-> a.k, warn |-> FALSE]
                 ELSE LET m == kernel_map_pages_at_unchecked(
                                   a.k, name, a.slice, phys_pages, DeviceAttr)
                      IN  IF ~m.res.ok
                          THEN [res |-> m.res, k |-> m.k, warn |-> m.warn]
                          ELSE [res |-> Ok(phys_pages.start + offset_into_start_page),
                                k |-> m.k, warn |-> m.warn]

\* Mutant: the sub-page offset is not added back.
kernel_map_mmio_no_offset(k, name, mmio_descriptor) ==
    LET phys_pages == MMIODescriptor_into(mmio_descriptor)
        dup == kernel_find_and_insert_mmio_duplicate(k.record, mmio_descriptor,
                                                     name)
    IN  IF dup.found
        THEN [res |-> Ok(dup.addr),
              k |-> [k EXCEPT !.record = dup.record], warn |-> dup.warn]
        ELSE LET a == next_mmio_virt_page_slice(k, phys_pages.num)
             IN  IF ~a.res.ok
                 THEN [res |-> a.res, k |-> a.k, warn |-> FALSE]
                 ELSE LET m == kernel_map_pages_at_unchecked(
                                   a.k, name, a.slice, phys_pages, DeviceAttr)
                      IN  IF ~m.res.ok
                          THEN [res |-> m.res, k |-> m.k, warn |-> m.warn]
                          ELSE [res |-> Ok(a.slice.start), k |-> m.k,
                                warn |-> m.warn]

\* Mutant: the virtual slice is allocated before the record is searched for
\* a duplicate.
kernel_map_mmio_alloc_first(k, name, mmio_descriptor) ==
    LET phys_pages == MMIODescriptor_into(mmio_descriptor)
        offset_into_start_page == BitAnd(mmio_descriptor.start, GranuleMask)
        a == next_mmio_virt_page_slice(k, phys_pages.num)
        dup == kernel_find_and_insert_mmio_duplicate(k.record, mmio_descriptor,
                                                     name)
    IN  IF ~a.res.ok
        THEN [res |-> a.res, k |-> a.k, warn |-> FALSE]
        ELSE IF dup.found
        THEN [res |-> Ok(dup.addr + offset_into_start_page),
              k |-> [k EXCEPT !.record = dup.record], warn |-> dup.warn]
        ELSE LET m == kernel_map_pages_at_unchecked(
                          a.k, name, a.slice, phys_pages, DeviceAttr)
             IN  IF ~m.res.ok
                 THEN [res |-> m.res, k |-> m.k, warn |-> m.warn]
                 ELSE [res |-> Ok(a.slice.start + offset_into_start_page),
                       k |-> m.k, warn |-> m.warn]

\* The fresh-mapping path of kernel_map_mmio with the attributes, the number
\* of pages asked of the allocator, and the allocator given.
\* (Used by the mutants below only.)
fresh_mmio(k, name, mmio_descriptor, attr, a) ==
    LET phys_pages == MMIODescriptor_into(mmio_descriptor)
        offset_into_start_page == BitAnd(mmio_descriptor.start, GranuleMask)
        virt_pages == Slice(a.slice.start, phys_pages.num)
    IN  IF ~a.res.ok
        THEN [res |-> a.res, k |-> a.k, warn |-> FALSE]
        ELSE LET m == kernel_map_pages_at_unchecked(a.k, name, virt_pages,
                                                    phys_pages, attr)
             IN  IF ~m.res.ok
                 THEN [res |-> m.res, k |-> m.k, warn |-> m.warn]
                 ELSE [res |-> Ok(virt_pages.start + offset_into_start_page),
                       k |-> m.k, warn |-> m.warn]

dup_mmio(k, name, mmio_descriptor) ==
    LET dup == kernel_find_and_insert_mmio_duplicate(k.record, mmio_descriptor,
                                                     name)
    IN  [res |-> Ok(dup.addr + BitAnd(mmio_descriptor.start, GranuleMask)),
         k |-> [k EXCEPT !.record = dup.record], warn |-> dup.warn]

is_dup(k, name, mmio_descriptor) ==
    kernel_find_and_insert_mmio_duplicate(k.record, mmio_descriptor, name).found

\* Mutant: device registers are mapped as normal cacheable memory.
kernel_map_mmio_cacheable(k, name, mmio_descriptor) ==
    IF is_dup(k, name, mmio_descriptor)
    THEN dup_mmio(k, name, mmio_descriptor)
    ELSE fresh_mmio(k, name, mmio_descriptor, DataAttr,
                    next_mmio_virt_page_slice(
                        k, MMIODescriptor_into(mmio_descriptor).num))

\* Mutant: one page is asked of the allocator whatever the slice's size.
kernel_map_mmio_one_page_alloc(k, name, mmio_descriptor) ==
    IF is_dup(k, name, mmio_descriptor)
    THEN dup_mmio(k, name, mmio_descriptor)
    ELSE fresh_mmio(k, name, mmio_descriptor, DeviceAttr,
                    next_mmio_virt_page_slice(k, 1))

\* Mutant: the slice is allocated in two requests, its first page and the
\* rest; a failure of the second leaves the first page taken.
kernel_map_mmio_pagewise_alloc(k, name, mmio_descriptor) ==
    LET n == MMIODescriptor_into(mmio_descriptor).num
        first == next_mmio_virt_page_slice(k, 1)
        rest == next_mmio_virt_page_slice(first.k, n - 1)
    IN  IF is_dup(k, name, mmio_descriptor)
        THEN dup_mmio(k, name, mmio_descriptor)
        ELSE IF n = 1 \/ ~first.res.ok
        THEN fresh_mmio(k, name, mmio_descriptor, DeviceAttr, first)
        ELSE fresh_mmio(k, name, mmio_descriptor, DeviceAttr,
                        [rest EXCEPT !.slice = first.slice])

\* Mutant: the record is not searched for a duplicate.
kernel_map_mmio_no_dedup(k, name, mmio_descriptor) ==
    fresh_mmio(k, name, mmio_descriptor, DeviceAttr,
               next_mmio_virt_page_slice(
                   k, MMIODescriptor_into(mmio_descriptor).num))

kernel_map_mmio(k, name, mmio_descriptor) ==
    LET phys_pages == MMIODescriptor_into(mmio_descriptor)
        offset_into_start_page == BitAnd(mmio_descriptor.start, GranuleMask)
        dup == kernel_find_and_insert_mmio_duplicate(k.record, mmio_descriptor,
                                                     name)
    IN  IF dup.found
        THEN [res |-> Ok(dup.addr + offset_into_start_page),
              k |-> [k EXCEPT !.record = dup.record], warn |-> dup.warn]
        ELSE LET a == next_mmio_virt_page_slice(k, phys_pages.num)
             IN  IF ~a.res.ok
                 THEN [res |-> a.res, k |-> a.k, warn |-> FALSE]
                 ELSE LET m == kernel_map_pages_at_unchecked(
                                   a.k, name, a.slice, phys_pages, DeviceAttr)
                      IN  IF ~m.res.ok
                          THEN [res |-> m.res, k |-> m.k, warn |-> m.warn]
                          ELSE [res |-> Ok(a.slice.start + offset_into_start_page),
                                k |-> m.k, warn |-> m.warn]

\* The kernel image's segments (board layer): one page of code.
KernelSegments ==
    << [name |-> "Kernel code and RO data", virt |-> Slice(0, 1),
        phys |-> Slice(0, 1), attr |-> CodeAttr] >>

\* bsp::memory::mmu::kernel_map_binary(): maps the segments in order and stops
\* at the first error.
RECURSIVE bsp_kernel_map_binary(_, _)
bsp_kernel_map_binary(k, i) ==
    IF i > Len(KernelSegments) THEN [res |-> Ok(0), k |-> k, warn |-> FALSE]
    ELSE LET g == KernelSegments[i]
             m == kernel_map_pages_at(k, g.name, g.virt, g.phys, g.attr)
         IN  IF ~m.res.ok THEN m
             ELSE LET n == bsp_kernel_map_binary(m.k, i + 1)
                  IN  [n EXCEPT !.warn = m.warn \/ n.warn]

\* Mutant: the segments are mapped without init().
kernel_map_binary_no_init(k) ==
    LET b == bsp_kernel_map_binary(k, 1)
    IN  IF ~b.res.ok THEN b
        ELSE [res |-> Ok(phys_base_address), k |-> b.k, warn |-> b.warn]

kernel_map_binary(k) ==
    LET k1 == init(k)
        phys_kernel_tables_base_addr == phys_base_address
        b == bsp_kernel_map_binary(k1, 1)
    IN  IF ~b.res.ok THEN b
        ELSE [res |-> Ok(phys_kernel_tables_base_addr), k |-> b.k,
              warn |-> b.warn]

\* Mutant: the registers are programmed without asking is_enabled().
enable_mmu_and_caching_unguarded(m, phys_tables_base_addr, hw_ok) ==
    arch_enable_mmu_and_caching([m EXCEPT !.enabled = FALSE],
                                phys_tables_base_addr, hw_ok)

enable_mmu_and_caching(m, phys_tables_base_addr, hw_ok) ==
    arch_enable_mmu_and_caching(m, phys_tables_base_addr, hw_ok)

\* Mutant: the table is walked whether or not the MMU is enabled.
try_virt_to_phys_walk_only(m, tbl, virt) ==
    arch_try_virt_to_phys([m EXCEPT !.enabled = TRUE], tbl, virt)

try_virt_to_phys(m, tbl, virt) == arch_try_virt_to_phys(m, tbl, virt)

(***************************************************************************)
(* State.                                                                  *)
(***************************************************************************)
VARIABLES
    table,         \* the kernel translation table
    mmio_cursor,   \* next unused page of the MMIO region
    initialized,   \* init() has run
    record,        \* the mapping record
    mmu,           \* the MMU driver's state
    last,          \* the most recent call: operation, arguments, result
    marked,        \* some earlier successful kernel_map_mmio call
    threads,       \* per execution context: its position in a call in progress
    lock           \* the translation table's reader/writer lock

vars == <<table, mmio_cursor, initialized, record, mmu, last, marked, threads,
          lock>>

K == [table |-> table, cursor |-> mmio_cursor, initialized |-> initialized,
      record |-> record]

NoDesc == MMIODesc(0, 0)

\* A call as `last` keeps it: the operation, its result and whether it warned.
Call(op, res, warn) ==
    [op |-> op, ok |-> res.ok, err |-> res.err, warn |-> warn]

NoMark == [valid |-> FALSE, name |-> "", desc |-> NoDesc, addr |-> NoVal]

\* The execution contexts and the driver each one runs.
Threads == {1, 2}
DriverOf(t) == IF t = 1 THEN "drvA" ELSE "drvB"

\* A context that is in no call.
IdleThread ==
    [pc |-> "idle", op |-> "none", name |-> "", virt |-> Slice(0, 0),
     phys |-> Slice(0, 0), attr |-> DataAttr, desc |-> NoDesc, seg |-> 0,
     res |-> Ok(0)]

Init ==
    /\ table = EmptyTable
    /\ mmio_cursor = 0
    /\ initialized = FALSE
    /\ record = << >>
    /\ mmu = [enabled |-> FALSE, ttbr |-> 0]
    /\ last = Call("boot", Ok(0), FALSE)
    /\ marked = NoMark
    /\ threads = [t \in Threads |-> IdleThread]
    /\ lock = [writer |-> 0, readers |-> {}]

SetKernel(k) ==
    /\ table' = k.table
    /\ mmio_cursor' = k.cursor
    /\ initialized' = k.initialized
    /\ record' = k.record

\* Arguments of kernel_map_pages_at: the board layer's name for the range,
\* any run of pages of the virtual address space (it may run past its end),
\* any run of pages of RAM.
ManualNames == {"board"}
VirtSlices ==
    {Slice(p * GranuleSize, n) : p \in 0 .. (NumVirtPages - 1), n \in 1 .. MaxMapPages}
PhysSlices ==
    {s \in {Slice(p * GranuleSize, n) : p \in 0 .. (NumRamPages - 1),
                                        n \in 1 .. MaxMapPages} :
        StartPage(s) + s.num <= NumRamPages}

\* The operations' effect on the kernel state, without the bookkeeping of
\* `last` and `marked`.
MapBinary ==
    /\ SetKernel(kernel_map_binary(K).k)
    /\ UNCHANGED <<mmu, threads, lock>>

\* map_pages_at() requires an initialised table.
MapPagesAt(name, virt_pages, phys_pages, attr) ==
    /\ initialized
    /\ SetKernel(kernel_map_pages_at(K, name, virt_pages, phys_pages, attr).k)
    /\ UNCHANGED <<mmu, threads, lock>>

MapMmio(name, d) ==
    /\ initialized
    /\ SetKernel(kernel_map_mmio(K, name, d).k)
    /\ UNCHANGED <<mmu, threads, lock>>

KernelMapBinary ==
    /\ MapBinary
    /\ last' = Call("kernel_map_binary", kernel_map_binary(K).res,
                    kernel_map_binary(K).warn)
    /\ UNCHANGED marked

KernelMapPagesAt ==
    /\ \E name \in ManualNames, virt_pages \in VirtSlices,
          phys_pages \in PhysSlices, attr \in ManualAttrs :
          LET r == kernel_map_pages_at(K, name, virt_pages, phys_pages, attr)
          IN  /\ MapPagesAt(name, virt_pages, phys_pages, attr)
              /\ last' = Call("kernel_map_pages_at", r.res, r.warn)
    /\ UNCHANGED marked

KernelMapMmio ==
    /\ \E name \in Names, d \in MMIODescs :
          LET r == kernel_map_mmio(K, name, d)
          IN  /\ MapMmio(name, d)
              /\ last' = Call("kernel_map_mmio", r.res, r.warn)
    /\ UNCHANGED marked

\* The first enabling passes the kernel tables' base address, after the
\* tables are populated (the function's safety contract); a call on an
\* enabled MMU may pass any address.
BaseAddrs == {phys_base_address, 0}

EnableMmuAndCaching ==
    \E base \in BaseAddrs, hw_ok \in BOOLEAN :
        /\ mmu.enabled \/ (initialized /\ base = phys_base_address)
        /\ LET r == enable_mmu_and_caching(mmu, base, hw_ok)
           IN  /\ mmu' = r.mmu
               /\ last' = Call("enable_mmu_and_caching", r.res, FALSE)
        /\ UNCHANGED <<table, mmio_cursor, initialized, record, marked,
                       threads, lock>>

TryVirtToPhys ==
    \E virt \in VirtAddrs :
        /\ last' = Call("try_virt_to_phys", try_virt_to_phys(mmu, table, virt),
                        FALSE)
        /\ UNCHANGED <<table, mmio_cursor, initialized, record, mmu, marked,
                       threads, lock>>

Next ==
    \/ KernelMapBinary
    \/ KernelMapPagesAt
    \/ KernelMapMmio
    \/ EnableMmuAndCaching
    \/ TryVirtToPhys

Spec == Init /\ [][Next]_vars

(***************************************************************************)
(* The mapping operations alone, with `marked` remembering one earlier     *)
(* successful kernel_map_mmio call (any one: each successful call may      *)
(* replace it), so that two calls of one run can be compared.              *)
(***************************************************************************)
PairsMapBinary ==
    /\ MapBinary
    /\ UNCHANGED <<last, marked>>

PairsMapPagesAt ==
    /\ \E name \in ManualNames, virt_pages \in VirtSlices,
          phys_pages \in PhysSlices, attr \in ManualAttrs :
          MapPagesAt(name, virt_pages, phys_pages, attr)
    /\ UNCHANGED <<last, marked>>

PairsMapMmio ==
    /\ \E name \in Names, d \in MMIODescs :
          LET r == kernel_map_mmio(K, name, d)
          IN  /\ MapMmio(name, d)
              /\ \/ marked' = marked
                 \/ /\ r.res.ok
                    /\ marked' = [valid |-> TRUE, name |-> name, desc |-> d,
                                  addr |-> r.res.val]
    /\ UNCHANGED last

NextPairs ==
    \/ PairsMapBinary
    \/ PairsMapPagesAt
    \/ PairsMapMmio

SpecPairs == Init /\ [][NextPairs]_vars

(***************************************************************************)
(* The mapping operations step by step, called from several execution      *)
(* contexts.  Every access to the translation table is a closure run under *)
(* the table's reader/writer lock (`.read(|tables| ..)`, `.write(..)`);    *)
(* the mapping record is reached through its own module, one call at a     *)
(* time.  A step is: a call, taking the lock, a closure's body with the    *)
(* release of the lock, or one call into the mapping record.               *)
(***************************************************************************)
\* Mutant: the table is written under the read lock.
LockMode_map_under_read(pc) ==
    CASE pc = "binary_init" -> "write"
      [] pc = "pages_at_query" -> "read"
      [] pc = "unchecked_map" -> "read"
      [] pc = "mmio_alloc" -> "write"
      [] OTHER -> "none"

\* The lock a position of the code asks for.
LockMode(pc) ==
    CASE pc = "binary_init" -> "write"
      [] pc = "pages_at_query" -> "read"
      [] pc = "unchecked_map" -> "write"
      [] pc = "mmio_alloc" -> "write"
      [] OTHER -> "none"

\* ReadWriteEx: a writer enters alone, readers enter while no writer is in.
CanLock(lk, mode) ==
    IF mode = "write" THEN lk.writer = 0 /\ lk.readers = {}
    ELSE lk.writer = 0

Locked(lk, t, mode) ==
    IF mode = "write" THEN [lk EXCEPT !.writer = t]
    ELSE [lk EXCEPT !.readers = @ \cup {t}]

Unlocked(lk, t) ==
    [writer |-> IF lk.writer = t THEN 0 ELSE lk.writer,
     readers |-> lk.readers \ {t}]

\* A context returns from its call with result res.  Of a kernel_map_mmio
\* call the descriptor and the result are kept for comparison.
Return(t, res) ==
    threads' = [threads EXCEPT ![t] =
                   IF threads[t].op = "kernel_map_mmio"
                   THEN [IdleThread EXCEPT !.op = threads[t].op,
                                           !.desc = threads[t].desc,
                                           !.res = res]
                   ELSE IdleThread]

\* Arguments of the calls made from several contexts: one-page mappings of
\* the first RAM page, one-register devices.
ConcVirtSlices == {v \in VirtSlices : v.num = 1}
ConcPhysSlices == {Slice(0, 1)}
ConcDescs == {d \in MMIODescs : d.size = 1}

Goto(t, pc) == threads' = [threads EXCEPT ![t].pc = pc]

\* kernel_map_binary() is called: the boot-time call, made while the tables
\* are not initialised.
CallMapBinary(t) ==
    /\ threads[t].pc = "idle"
    /\ ~initialized
    /\ threads' = [threads EXCEPT ![t] =
                      [IdleThread EXCEPT !.pc = "binary_init",
                                         !.op = "kernel_map_binary"]]
    /\ UNCHANGED <<table, mmio_cursor, initialized, record, mmu, last, marked,
                   lock>>

\* kernel_map_pages_at(name, virt_pages, phys_pages, attr) is called.
CallMapPagesAt(t) ==
    /\ threads[t].pc = "idle"
    /\ initialized
    /\ \E name \in ManualNames, virt_pages \in ConcVirtSlices,
          phys_pages \in ConcPhysSlices, attr \in ManualAttrs :
          threads' = [threads EXCEPT ![t] =
                         [IdleThread EXCEPT !.pc = "pages_at_query",
                                            !.op = "kernel_map_pages_at",
                                            !.name = name,
                                            !.virt = virt_pages,
                                            !.phys = phys_pages,
                                            !.attr = attr]]
    /\ UNCHANGED <<table, mmio_cursor, initialized, record, mmu, last, marked,
                   lock>>

\* kernel_map_mmio(name, mmio_descriptor) is called by the context's driver.
CallMapMmio(t) ==
    /\ threads[t].pc = "idle"
    /\ initialized
    /\ \E d \in ConcDescs :
          threads' = [threads EXCEPT ![t] =
                         [IdleThread EXCEPT !.pc = "mmio_dup",
                                            !.op = "kernel_map_mmio",
                                            !.name = DriverOf(t),
                                            !.phys = MMIODescriptor_into(d),
                                            !.desc = d]]
    /\ UNCHANGED <<table, mmio_cursor, initialized, record, mmu, last, marked,
                   lock>>

\* kernel_translation_tables().read / .write: the lock is taken.
Acquire(t) ==
    /\ LockMode(threads[t].pc) # "none"
    /\ CanLock(lock, LockMode(threads[t].pc))
    /\ lock' = Locked(lock, t, LockMode(threads[t].pc))
    /\ Goto(t, threads[t].pc \o "_cs")
    /\ UNCHANGED <<table, mmio_cursor, initialized, record, mmu, last, marked>>

\* kernel_map_binary: |tables| { tables.init(); tables.phys_base_address() },
\* then bsp kernel_map_binary() starts with the first segment.
InitSection(t) ==
    /\ threads[t].pc = "binary_init_cs"
    /\ SetKernel(init(K))
    /\ lock' = Unlocked(lock, t)
    /\ threads' = [threads EXCEPT ![t].pc = "pages_at_query",
                                  ![t].seg = 1,
                                  ![t].name = KernelSegments[1].name,
                                  ![t].virt = KernelSegments[1].virt,
                                  ![t].phys = KernelSegments[1].phys,
                                  ![t].attr = KernelSegments[1].attr]
    /\ UNCHANGED <<mmu, last, marked>>

\* kernel_map_pages_at: |tables| tables.is_virt_page_slice_mmio(virt_pages).
QuerySection(t) ==
    /\ threads[t].pc = "pages_at_query_cs"
    /\ lock' = Unlocked(lock, t)
    /\ IF is_virt_page_slice_mmio(threads[t].virt)
       THEN Return(t, Err(ErrMmioPolicy))
       ELSE Goto(t, "unchecked_map")
    /\ UNCHANGED <<table, mmio_cursor, initialized, record, mmu, last, marked>>

\* kernel_map_mmio: mapping_record::kernel_find_and_insert_mmio_duplicate().
FindDuplicate(t) ==
    /\ threads[t].pc = "mmio_dup"
    /\ LET dup == kernel_find_and_insert_mmio_duplicate(
                      record, threads[t].desc, threads[t].name)
       IN  /\ record' = dup.record
           /\ IF dup.found
              THEN Return(t, Ok(dup.addr + BitAnd(threads[t].desc.start,
                                                 GranuleMask)))
              ELSE Goto(t, "mmio_alloc")
    /\ UNCHANGED <<table, mmio_cursor, initialized, mmu, last, marked, lock>>

\* kernel_map_mmio: |tables| tables.next_mmio_virt_page_slice(num_pages).
AllocSection(t) ==
    /\ threads[t].pc = "mmio_alloc_cs"
    /\ lock' = Unlocked(lock, t)
    /\ LET a == next_mmio_virt_page_slice(K, threads[t].phys.num)
       IN  /\ SetKernel(a.k)
           /\ IF ~a.res.ok
              THEN Return(t, a.res)
              ELSE threads' = [threads EXCEPT ![t].pc = "unchecked_map",
                                              ![t].virt = a.slice,
                                              ![t].attr = DeviceAttr]
    /\ UNCHANGED <<mmu, last, marked>>

\* kernel_map_pages_at_unchecked: |tables| tables.map_pages_at(..), and `?`.
MapSection(t) ==
    /\ threads[t].pc = "unchecked_map_cs"
    /\ lock' = Unlocked(lock, t)
    /\ LET m == map_pages_at(table, threads[t].virt, threads[t].phys,
                             threads[t].attr)
       IN  /\ table' = m.table
           /\ IF ~m.res.ok
              THEN Return(t, m.res)
              ELSE Goto(t, "unchecked_record")
    /\ UNCHANGED <<mmio_cursor, initialized, record, mmu, last, marked>>

\* kernel_map_pages_at_unchecked: mapping_record::kernel_add(), then the
\* return to the caller: kernel_map_pages_at, kernel_map_mmio or the next
\* segment of kernel_map_binary.
AddRecord(t) ==
    /\ threads[t].pc = "unchecked_record"
    /\ record' = kernel_add_mapping_record(record, threads[t].name,
                                           threads[t].virt, threads[t].phys,
                                           threads[t].attr).record
    /\ CASE threads[t].op = "kernel_map_mmio" ->
              Return(t, Ok(threads[t].virt.start
                             + BitAnd(threads[t].desc.start, GranuleMask)))
         [] threads[t].op = "kernel_map_binary"
              /\ threads[t].seg < Len(KernelSegments) ->
              threads' = [threads EXCEPT
                  ![t].pc = "pages_at_query",
                  ![t].seg = @ + 1,
                  ![t].name = KernelSegments[threads[t].seg + 1].name,
                  ![t].virt = KernelSegments[threads[t].seg + 1].virt,
                  ![t].phys = KernelSegments[threads[t].seg + 1].phys,
                  ![t].attr = KernelSegments[threads[t].seg + 1].attr]
         [] threads[t].op = "kernel_map_binary"
              /\ threads[t].seg >= Len(KernelSegments) ->
              Return(t, Ok(phys_base_address))
         [] OTHER -> Return(t, Ok(0))
    /\ UNCHANGED <<table, mmio_cursor, initialized, mmu, last, marked, lock>>

NextConc ==
    \/ \E t \in Threads : CallMapBinary(t)
    \/ \E t \in Threads : CallMapPagesAt(t)
    \/ \E t \in Threads : CallMapMmio(t)
    \/ \E t \in Threads : Acquire(t)
    \/ \E t \in Threads : InitSection(t)
    \/ \E t \in Threads : QuerySection(t)
    \/ \E t \in Threads : FindDuplicate(t)
    \/ \E t \in Threads : AllocSection(t)
    \/ \E t \in Threads : MapSection(t)
    \/ \E t \in Threads : AddRecord(t)

SpecConc == Init /\ [][NextConc]_vars

(***************************************************************************)
(* Claims.                                                                 *)
(***************************************************************************)
\* The record holds an entry under each of the two names with one and the
\* same virtual slice and the page-aligned physical slice of d.
TwoEntries(rec, n1, n2, d) ==
    \E i, j \in 1 .. Len(rec) :
        /\ i # j
        /\ rec[i].name = n1 /\ rec[j].name = n2
        /\ rec[i].virt = rec[j].virt
        /\ rec[i].phys = MMIODescriptor_into(d)
        /\ rec[j].phys = MMIODescriptor_into(d)

\* C1: after any sequence of mapping operations, a successful
\* kernel_map_mmio call made with the same MMIODescriptor as an earlier
\* successful call under another name returns the earlier call's virtual
\* address (and the mapping record then holds two entries with the two
\* names and identical virtual and physical ranges: C1_TwoEntries).
C1_SameDescriptorSameAddress ==
    \A name \in Names, d \in MMIODescs :
        LET r == kernel_map_mmio(K, name, d)
        IN  (/\ initialized /\ marked.valid
             /\ marked.desc = d /\ marked.name # name
             /\ r.res.ok)
            => r.res.val = marked.addr

C1_TwoEntries ==
    \A name \in Names, d \in MMIODescs :
        LET r == kernel_map_mmio(K, name, d)
        IN  (/\ initialized /\ marked.valid
             /\ marked.desc = d /\ marked.name # name
             /\ r.res.ok)
            => TwoEntries(r.k.record, marked.name, name, d)

\* Both hold of calls that find room in the record: the earlier call's entry
\* is in the record and the record is not full.
C1_WithRoom ==
    \A name \in Names, d \in MMIODescs :
        LET r == kernel_map_mmio(K, name, d)
        IN  (/\ initialized /\ marked.valid
             /\ marked.desc = d /\ marked.name # name
             /\ r.res.ok
             /\ \E i \in 1 .. Len(record) :
                    /\ record[i].name = marked.name
                    /\ record[i].phys = MMIODescriptor_into(d)
             /\ Len(record) < RecordCap)
            => /\ r.res.val = marked.addr
               /\ TwoEntries(r.k.record, marked.name, name, d)

\* C2: kernel_map_pages_at called with a virtual page slice that intersects
\* the reserved MMIO region returns the MMIO-policy error and changes
\* nothing: table, MMIO cursor and mapping record are as before the call.
IntersectsMmio(virt_pages) ==
    \E p \in SlicePages(virt_pages) : MmioStartPage <= p /\ p < MmioEndPage

C2_MmioRegionRejected ==
    \A name \in ManualNames, virt_pages \in VirtSlices,
       phys_pages \in PhysSlices, attr \in ManualAttrs :
        LET r == kernel_map_pages_at(K, name, virt_pages, phys_pages, attr)
        IN  IntersectsMmio(virt_pages)
            => /\ r.res = Err(ErrMmioPolicy)
               /\ r.k.table = table
               /\ r.k.cursor = mmio_cursor
               /\ r.k.record = record

\* C2 witness: a call has been rejected with the MMIO-policy error while the
\* table is initialised and the MMIO region still has unmapped pages.
C2_Witness ==
    /\ last.op = "kernel_map_pages_at"
    /\ last.err = ErrMmioPolicy
    /\ initialized
    /\ \E p \in MmioStartPage .. (MmioEndPage - 1) : ~table[p].valid

\* The byte range of an MMIO descriptor, and the virtual page slice a
\* successful kernel_map_mmio(name, d) that returned addr handed to its caller.
Bytes(d) == d.start .. (d.start + d.size - 1)
VirtSliceOf(addr, d) == Slice(align_down(addr), MMIODescriptor_into(d).num)

MapsTo(tbl, v, p) ==
    /\ v.num = p.num
    /\ v.start % GranuleSize = 0
    /\ \A i \in 0 .. (v.num - 1) :
          /\ StartPage(v) + i \in DOMAIN tbl
          /\ tbl[StartPage(v) + i].valid
          /\ tbl[StartPage(v) + i].phys = p.start + i * GranuleSize

\* C4: every successful kernel_map_mmio(name, d), on the fresh path and on
\* the dedup path, returns (start of the virtual page slice that is mapped
\* to the page-aligned physical slice of d) + (d.start mod granule size), so
\* that with the MMU enabled the returned address translates to d.start (and
\* every byte of the descriptor to itself).
C4_ExactAddress ==
    \A name \in Names, d \in MMIODescs :
        LET r == kernel_map_mmio(K, name, d)
            off == d.start % GranuleSize
            v == Slice(r.res.val - off, MMIODescriptor_into(d).num)
        IN  (initialized /\ r.res.ok)
            => /\ MapsTo(r.k.table, v, MMIODescriptor_into(d))
               /\ mmu.enabled
                    => \A o \in 0 .. (d.size - 1) :
                          try_virt_to_phys(mmu, r.k.table, r.res.val + o)
                            = Ok(d.start + o)

\* C4 witness: with the MMU enabled, a kernel_map_mmio call has succeeded
\* and the record shows a fresh mapping of a descriptor's slice and a dedup
\* entry for it.
C4_Witness ==
    /\ mmu.enabled
    /\ last.op = "kernel_map_mmio" /\ last.ok
    /\ \E i, j \in 1 .. Len(record) :
          /\ i < j
          /\ record[i].attr = DeviceAttr
          /\ record[j].virt = record[i].virt
          /\ record[j].phys = record[i].phys
          /\ record[j].name # record[i].name

Recorded(rec, phys_pages) == \E i \in 1 .. Len(rec) : rec[i].phys = phys_pages

\* C5: once the MMIO virtual region is exhausted, kernel_map_mmio for a
\* physical range the record does not hold fails with the exhaustion error,
\* and for a recorded range (a dedup hit) succeeds with the recorded virtual
\* start address plus the sub-page offset.
C5_Exhaustion ==
    (initialized /\ mmio_cursor = MmioEndPage)
    => \A name \in Names, d \in MMIODescs :
          LET r == kernel_map_mmio(K, name, d)
              p == MMIODescriptor_into(d)
          IN  /\ ~Recorded(record, p) => r.res = Err(ErrMmioExhausted)
              /\ Recorded(record, p)
                   => /\ r.res.ok
                      /\ \E i \in 1 .. Len(record) :
                            /\ record[i].phys = p
                            /\ r.res.val
                                 = record[i].virt.start + (d.start % GranuleSize)
                      /\ MapsTo(r.k.table,
                                Slice(r.res.val - (d.start % GranuleSize), p.num), p)

\* C5 witness: the region is exhausted, a call has failed with the
\* exhaustion error, and both a recorded and an unrecorded range exist.
C5_Witness ==
    /\ initialized /\ mmio_cursor = MmioEndPage
    /\ last.op = "kernel_map_mmio" /\ last.err = ErrMmioExhausted
    /\ \E d \in MMIODescs : Recorded(record, MMIODescriptor_into(d))
    /\ \E d \in MMIODescs : ~Recorded(record, MMIODescriptor_into(d))

\* C6: enable_mmu_and_caching succeeds only on a disabled MMU, which it
\* enables with the given table base; on an enabled MMU every call returns
\* AlreadyEnabled and leaves enable bit and table-base register as they
\* are; the MMU becomes enabled only by a successful call and no step takes
\* it back to disabled or changes its registers afterwards.
C6_EnableOnce ==
    /\ [](\A base \in BaseAddrs, hw_ok \in BOOLEAN :
            LET r == enable_mmu_and_caching(mmu, base, hw_ok)
            IN  /\ mmu.enabled
                     => r = [res |-> Err("AlreadyEnabled"), mmu |-> mmu]
                /\ r.res.ok
                     => /\ ~mmu.enabled
                        /\ r.mmu = [enabled |-> TRUE, ttbr |-> base])
    /\ [][(~mmu.enabled /\ mmu'.enabled)
            => (last'.op = "enable_mmu_and_caching" /\ last'.ok)]_vars
    /\ [][mmu.enabled => mmu' = mmu]_vars

\* C6 witness: a call on the enabled MMU has returned AlreadyEnabled.
C6_Witness ==
    /\ mmu = [enabled |-> TRUE, ttbr |-> phys_base_address]
    /\ last.op = "enable_mmu_and_caching"
    /\ last.err = "AlreadyEnabled"

\* C7: with the MMU not enabled try_virt_to_phys returns MMUDisabled for
\* every address, whatever the table holds; with the MMU enabled it returns
\* Aborted for every address whose page has no installed mapping.
C7_TranslationErrors ==
    \A virt \in VirtAddrs :
        LET r == try_virt_to_phys(mmu, table, virt)
        IN  /\ ~mmu.enabled => r = Err("MMUDisabled")
            /\ (mmu.enabled /\ ~table[virt \div GranuleSize].valid)
                 => r = Err("Aborted")

\* C7 witness: a translation has been aborted on the enabled MMU while the
\* table holds device mappings.
C7_Witness ==
    /\ mmu.enabled
    /\ last.op = "try_virt_to_phys" /\ last.err = "Aborted"
    /\ \E p \in MmioStartPage .. (MmioEndPage - 1) : table[p].valid
    /\ \E p \in DOMAIN table : ~table[p].valid

\* Every physical page slice the facade hands to map_pages_at.
AllPhysSlices == PhysSlices \cup {MMIODescriptor_into(d) : d \in MMIODescs}

\* Every address of virtual page i of virt_pages translates to the same
\* offset in physical page i of phys_pages.
Translates(tbl, virt_pages, phys_pages) ==
    \A i \in 0 .. (virt_pages.num - 1), o \in 0 .. (GranuleSize - 1) :
        try_virt_to_phys(mmu, tbl, virt_pages.start + i * GranuleSize + o)
          = Ok(phys_pages.start + i * GranuleSize + o)

\* C8 (as claimed): for page slices of equal page count, a successful
\* map_pages_at (through kernel_map_pages_at_unchecked) followed by
\* try_virt_to_phys on any address of virtual page i returns the address in
\* physical page i with the same offset.
C8_MapThenTranslate ==
    \A virt_pages \in VirtSlices, phys_pages \in AllPhysSlices,
       attr \in ManualAttrs \cup {DeviceAttr} :
        LET r == kernel_map_pages_at_unchecked(K, "board", virt_pages,
                                               phys_pages, attr)
        IN  (initialized /\ virt_pages.num = phys_pages.num /\ r.res.ok)
            => Translates(r.k.table, virt_pages, phys_pages)

\* C8 (amended): the same, with the MMU enabled.
C8_MapThenTranslateEnabled ==
    \A virt_pages \in VirtSlices, phys_pages \in AllPhysSlices,
       attr \in ManualAttrs \cup {DeviceAttr} :
        LET r == kernel_map_pages_at_unchecked(K, "board", virt_pages,
                                               phys_pages, attr)
        IN  (/\ initialized /\ mmu.enabled
             /\ virt_pages.num = phys_pages.num /\ r.res.ok)
            => Translates(r.k.table, virt_pages, phys_pages)

\* C8 witness: with the MMU enabled a mapping call has succeeded, and the
\* table holds a two-page slice whose second page translates to the second
\* physical page.
C8_Witness ==
    /\ mmu.enabled
    /\ last.op \in {"kernel_map_pages_at", "kernel_map_mmio"} /\ last.ok
    /\ \E i \in 1 .. Len(record) :
          /\ record[i].virt.num = 2
          /\ Translates(table, record[i].virt, record[i].phys)

\* C9: when the mapping record is full, a kernel_map_pages_at or
\* kernel_map_mmio call whose table mapping succeeds returns success with
\* the pages installed in the table; the record is unchanged and a warning
\* is emitted.
C9_FullRecordNonFatal ==
    (initialized /\ Len(record) = RecordCap)
    => /\ \A name \in ManualNames, virt_pages \in VirtSlices,
             phys_pages \in PhysSlices, attr \in ManualAttrs :
             LET m == map_pages_at(table, virt_pages, phys_pages, attr)
                 r == kernel_map_pages_at(K, name, virt_pages, phys_pages, attr)
             IN  (~IntersectsMmio(virt_pages) /\ m.res.ok)
                 => /\ r.res.ok /\ r.warn
                    /\ r.k.record = record
                    /\ MapsTo(r.k.table, virt_pages, phys_pages)
       /\ \A name \in Names, d \in MMIODescs :
             LET r == kernel_map_mmio(K, name, d)
                 p == MMIODescriptor_into(d)
             IN  (Recorded(record, p) \/ mmio_cursor + p.num <= MmioEndPage)
                 => /\ r.res.ok /\ r.warn
                    /\ r.k.record = record
                    /\ MapsTo(r.k.table,
                              Slice(r.res.val - (d.start % GranuleSize), p.num), p)

\* C9 witness: a call has succeeded with a warning, the record is full and
\* the table holds a page no entry of the record covers.
C9_Witness ==
    /\ Len(record) = RecordCap
    /\ last.op \in {"kernel_map_pages_at", "kernel_map_mmio"}
    /\ last.ok /\ last.warn
    /\ \E p \in DOMAIN table :
          /\ table[p].valid
          /\ \A i \in 1 .. Len(record) : p \notin SlicePages(record[i].virt)

\* C10: every entry of the mapping record describes a mapping the table
\* has: each virtual page of the entry's virtual slice is installed and maps
\* to the corresponding physical page with the entry's attributes.
C10_RecordInTable ==
    \A i \in 1 .. Len(record) :
        \A j \in 0 .. (record[i].virt.num - 1) :
            table[StartPage(record[i].virt) + j]
              = PageDesc(record[i].phys.start + j * GranuleSize, record[i].attr)

\* C10 witness: the record is full and holds the kernel's code, a device
\* mapping of two pages and a dedup entry for it.
C10_Witness ==
    /\ Len(record) = RecordCap
    /\ \E i, j \in 1 .. Len(record) :
          /\ i < j
          /\ record[i].attr = DeviceAttr /\ record[i].virt.num = 2
          /\ record[j].virt = record[i].virt
    /\ \E i \in 1 .. Len(record) : record[i].attr = CodeAttr

(***************************************************************************)
(* C11 .. C20                                                              *)
(***************************************************************************)
\* Page p of the table is described by some entry of the record.
InRecord(rec, tbl, p) ==
    \E i \in 1 .. Len(rec) :
        /\ p \in SlicePages(rec[i].virt)
        /\ tbl[p] = PageDesc(rec[i].phys.start
                               + (p - StartPage(rec[i].virt)) * GranuleSize,
                             rec[i].attr)

\* C11: in every state in which another reader or writer can enter the
\* table (no writer holds the table's lock), every mapping installed in the
\* table is present in the mapping record, unless the record was full (a
\* record with room has never been full, so the warning path was not taken).
C11_RecordedWhenObservable ==
    (lock.writer = 0 /\ Len(record) < RecordCap)
    => \A p \in DOMAIN table : table[p].valid => InRecord(record, table, p)

Mutating(t) ==
    threads[t].pc \in {"binary_init_cs", "unchecked_map_cs", "mmio_alloc_cs"}
Reading(t) == threads[t].pc = "pages_at_query_cs"

\* C12: in no reachable state is a mutation of the table (map_pages_at,
\* next_mmio_virt_page_slice, init) inside its critical section while
\* another mutation or a reader (is_virt_page_slice_mmio) is inside its own.
C12_ReaderWriterExclusion ==
    \A t, u \in Threads :
        (t # u /\ Mutating(t)) => (~Mutating(u) /\ ~Reading(u))

\* C12 witness: a mutation is inside its critical section while the other
\* context stands at a critical section's entry, asking for the lock.
C12_Witness ==
    \E t, u \in Threads :
        /\ t # u
        /\ Mutating(t)
        /\ LockMode(threads[u].pc) # "none"
        /\ ~CanLock(lock, LockMode(threads[u].pc))

\* Two readers are inside their critical sections together.
C12_ReadersTogether == \A t \in Threads : Reading(t)

\* C14: when two kernel_map_mmio calls with the identical descriptor under
\* two driver names have both returned successfully and both are recorded,
\* both callers hold the same virtual address and the physical page slice
\* is mapped at only one virtual page slice of the MMIO region.
C14_NoDoubleMapping ==
    \A t, u \in Threads :
        (/\ t # u
         /\ threads[t].pc = "idle" /\ threads[u].pc = "idle"
         /\ threads[t].op = "kernel_map_mmio" /\ threads[u].op = "kernel_map_mmio"
         /\ threads[t].res.ok /\ threads[u].res.ok
         /\ threads[t].desc = threads[u].desc
         /\ \A n \in {DriverOf(t), DriverOf(u)} :
               \E i \in 1 .. Len(record) :
                   /\ record[i].name = n
                   /\ record[i].phys = MMIODescriptor_into(threads[t].desc))
        => /\ threads[t].res.val = threads[u].res.val
           /\ Cardinality({p \in MmioStartPage .. (MmioEndPage - 1) :
                             /\ table[p].valid
                             /\ table[p].phys
                                  = MMIODescriptor_into(threads[t].desc).start})
                <= 1

IsPrefix(a, b) == Len(a) <= Len(b) /\ SubSeq(b, 1, Len(a)) = a

MapOps == {"kernel_map_binary", "kernel_map_pages_at", "kernel_map_mmio"}

MmioRegion == MmioStartPage .. (MmioEndPage - 1)

\* C15: every mapping installed in the reserved MMIO region is device
\* memory, read-write, execute-never; a page of the region changes only in
\* a kernel_map_mmio step; no kernel_map_pages_at call, whatever its
\* attributes, changes a page of the region.
C15_MmioRegionDeviceOnly ==
    /\ [](\A p \in MmioRegion : table[p].valid => table[p].attr = DeviceAttr)
    /\ [][(\E p \in MmioRegion : table'[p] # table[p])
            => last'.op = "kernel_map_mmio"]_vars
    /\ [](\A name \in ManualNames, virt_pages \in VirtSlices,
             phys_pages \in PhysSlices, attr \in {DataAttr, CodeAttr} :
             \A p \in MmioRegion :
                 kernel_map_pages_at(K, name, virt_pages, phys_pages,
                                     attr).k.table[p] = table[p])

\* C15 witness: the whole MMIO region is populated and a manual mapping into
\* it has been rejected.
C15_Witness ==
    /\ \A p \in MmioRegion : table[p].valid
    /\ last.op = "kernel_map_pages_at" /\ last.err = ErrMmioPolicy

\* C16: when the table's map_pages_at fails, kernel_map_pages_at (and the
\* unchecked mapping below it, for every slice) returns that error and
\* leaves table, cursor and record as they were.
C16_TableErrorSurfaced ==
    initialized
    => /\ \A name \in ManualNames, virt_pages \in VirtSlices,
             phys_pages \in PhysSlices, attr \in ManualAttrs :
             LET m == map_pages_at(table, virt_pages, phys_pages, attr)
                 r == kernel_map_pages_at(K, name, virt_pages, phys_pages, attr)
             IN  (~IntersectsMmio(virt_pages) /\ ~m.res.ok)
                 => (r.res = m.res /\ r.k = K)
       /\ \A name \in ManualNames, virt_pages \in VirtSlices,
             phys_pages \in AllPhysSlices, attr \in ManualAttrs :
             LET m == map_pages_at(table, virt_pages, phys_pages, attr)
                 r == kernel_map_pages_at_unchecked(K, name, virt_pages,
                                                    phys_pages, attr)
             IN  ~m.res.ok => (r.res = m.res /\ r.k = K)

\* C16 witness: a manual mapping has failed on an occupied page and one on
\* unequal page counts can fail next.
C16_Witness ==
    /\ last.op = "kernel_map_pages_at" /\ last.err = ErrOccupied
    /\ \E virt_pages \in VirtSlices, phys_pages \in PhysSlices :
          /\ ~IntersectsMmio(virt_pages)
          /\ map_pages_at(table, virt_pages, phys_pages, DataAttr).res
               = Err(ErrUnequal)

\* C17: the MMIO cursor never moves backwards; it stays inside the region
\* and every installed page of the region lies below it; a fresh
\* kernel_map_mmio gets exactly the pages from the cursor on, inside the
\* region; and a successful kernel_map_mmio for a page-aligned physical
\* slice other than that of an earlier successful call gets a virtual page
\* slice disjoint from the earlier call's.
C17_MonotonicAllocation ==
    /\ [][mmio_cursor' >= mmio_cursor]_vars
    /\ [](initialized
          => /\ mmio_cursor \in MmioStartPage .. MmioEndPage
             /\ \A p \in MmioRegion : table[p].valid => p < mmio_cursor)
    /\ [](\A name \in Names, d \in MMIODescs :
            LET r == kernel_map_mmio(K, name, d)
            IN  (/\ initialized /\ r.res.ok
                 /\ ~Recorded(record, MMIODescriptor_into(d)))
                => /\ SlicePages(VirtSliceOf(r.res.val, d))
                        = mmio_cursor .. (r.k.cursor - 1)
                   /\ SlicePages(VirtSliceOf(r.res.val, d)) \subseteq MmioRegion)
    /\ [](\A name \in Names, d \in MMIODescs :
            LET r == kernel_map_mmio(K, name, d)
            IN  (/\ initialized /\ marked.valid /\ r.res.ok
                 /\ MMIODescriptor_into(d) # MMIODescriptor_into(marked.desc))
                => SlicePages(VirtSliceOf(r.res.val, d))
                     \cap SlicePages(VirtSliceOf(marked.addr, marked.desc)) = {})

\* C17 witness: an earlier call's slice and a later, different one have
\* been handed out, the later above the earlier.
C17_Witness ==
    /\ marked.valid
    /\ mmio_cursor > MmioStartPage + 1
    /\ \E i \in 1 .. Len(record) :
          /\ record[i].attr = DeviceAttr
          /\ record[i].phys # MMIODescriptor_into(marked.desc)
          /\ StartPage(record[i].virt)
               > StartPage(VirtSliceOf(marked.addr, marked.desc))

\* C18: a kernel_map_mmio call that returns an error leaves table, record
\* and MMIO cursor as they were; in particular the mapping of a freshly
\* allocated virtual slice never fails, so no allocated slice is lost.
C18_FailedMmioNoEffect ==
    \A name \in Names, d \in MMIODescs :
        LET r == kernel_map_mmio(K, name, d)
            a == next_mmio_virt_page_slice(K, MMIODescriptor_into(d).num)
        IN  initialized
            => /\ ~r.res.ok => r.k = K
               /\ a.res.ok
                    => map_pages_at(table, a.slice, MMIODescriptor_into(d),
                                    DeviceAttr).res.ok

\* C18 witness: a kernel_map_mmio call has failed while a page of the
\* region was still free (the request was larger than what is left).
C18_Witness ==
    /\ last.op = "kernel_map_mmio" /\ ~last.ok
    /\ mmio_cursor = MmioEndPage - 1
    /\ ~table[MmioEndPage - 1].valid

\* C19: on a dedup hit kernel_map_mmio succeeds, leaves table and cursor
\* unchanged, and changes the record at most by the one entry for the new
\* name that repeats the duplicate's slices.
C19_DedupFrame ==
    \A name \in Names, d \in MMIODescs :
        LET r == kernel_map_mmio(K, name, d)
        IN  (initialized /\ Recorded(record, MMIODescriptor_into(d)))
            => /\ r.res.ok
               /\ r.k.table = table
               /\ r.k.cursor = mmio_cursor
               /\ \/ r.k.record = record /\ r.warn
                  \/ \E i \in 1 .. Len(record) :
                        /\ record[i].phys = MMIODescriptor_into(d)
                        /\ r.k.record
                             = Append(record, Entry(name, record[i].virt,
                                                    record[i].phys,
                                                    record[i].attr))

\* C19 witness: one slice has been allocated, and the record's newest entry
\* is a dedup entry for it under another name.
C19_Witness ==
    /\ last.op = "kernel_map_mmio" /\ last.ok /\ ~last.warn
    /\ Len(record) >= 2
    /\ \E i \in 1 .. (Len(record) - 1) :
          /\ record[i].attr = DeviceAttr
          /\ record[Len(record)].virt = record[i].virt
          /\ record[Len(record)].phys = record[i].phys
          /\ record[Len(record)].name # record[i].name
          /\ mmio_cursor = MmioStartPage + record[i].virt.num

\* C20: before init no page is installed, nothing is recorded and the MMU
\* is off; kernel_map_binary leaves the table initialised, on success
\* returns the table's phys_base_address and, called on the uninitialised
\* table, has the kernel's segments mapped; the enabled MMU implies
\* populated tables; no step leaves the initialised or the active state.
C20_Lifecycle ==
    /\ [](~initialized
          => (table = EmptyTable /\ record = << >> /\ ~mmu.enabled))
    /\ [](LET r == kernel_map_binary(K)
          IN  /\ r.k.initialized
              /\ r.res.ok => r.res.val = phys_base_address
              /\ ~initialized
                   => /\ r.res.ok
                      /\ \A i \in 1 .. Len(KernelSegments) :
                            MapsTo(r.k.table, KernelSegments[i].virt,
                                   KernelSegments[i].phys))
    /\ [](mmu.enabled => (initialized /\ mmu.ttbr = phys_base_address))
    /\ [][initialized => initialized']_vars
    /\ [][mmu.enabled => mmu'.enabled]_vars

\* C20 witness: the active state, reached through kernel_map_binary and
\* enable_mmu_and_caching, with a device mapped afterwards.
C20_Witness ==
    /\ initialized
    /\ mmu = [enabled |-> TRUE, ttbr |-> phys_base_address]
    /\ \A i \in 1 .. Len(KernelSegments) :
          MapsTo(table, KernelSegments[i].virt, KernelSegments[i].phys)
    /\ last.op = "kernel_map_mmio" /\ last.ok

=============================================================================
